---- MODULE Spec2Model ----
(***************************************************************************)
(* Model of src/controllers/ImageUploadController/imageUploadController.js *)
(*                                                                         *)
(* Strings that the code computes character by character (file names,     *)
(* hosts, URLs) are sequences of one-character strings, so that            *)
(* encodeURIComponent and the template literals are computed, not assumed. *)
(* Fixed message texts are TLA+ strings; a template literal that embeds    *)
(* them is the sequence of its parts.                                      *)
(***************************************************************************)
EXTENDS Integers, Sequences, FiniteSets, TLC

\* ------------------------------------------------------------------ bounds
\* NumReqs requests are served; the clock starts at FirstMillis and advances
\* MaxTicks times.  Clock values are small stand-ins for epoch milliseconds:
\* the decimal rendering and the naming rule do not depend on the magnitude.
NumReqs == 2
MaxTicks == 1
FirstMillis == 9

Reqs == 1..NumReqs
Millis == FirstMillis..(FirstMillis + MaxTicks)

\* ------------------------------------------------------- character tables
\* Printable ASCII, code 32 (space) to 126 (~), in code order. Code 96 (the
\* grave accent) cannot be written as a string literal; its slot holds a
\* placeholder that is no character, which keeps the codes aligned.
Ascii ==
  << " ", "!", "\"", "#", "$", "%", "&", "'", "(", ")", "*", "+", ",", "-", ".", "/",
     "0", "1", "2", "3", "4", "5", "6", "7", "8", "9", ":", ";", "<", "=", ">", "?",
     "@", "A", "B", "C", "D", "E", "F", "G", "H", "I", "J", "K", "L", "M", "N", "O",
     "P", "Q", "R", "S", "T", "U", "V", "W", "X", "Y", "Z", "[", "\\", "]", "^", "_",
     "GRAVE", "a", "b", "c", "d", "e", "f", "g", "h", "i", "j", "k", "l", "m", "n", "o",
     "p", "q", "r", "s", "t", "u", "v", "w", "x", "y", "z", "{", "|", "}", "~" >>

Chars == {Ascii[i] : i \in 1..Len(Ascii)} \ {"GRAVE"}

CharCode(c) == 31 + (CHOOSE i \in 1..Len(Ascii) : Ascii[i] = c)

DecDigits == <<"0", "1", "2", "3", "4", "5", "6", "7", "8", "9">>

HexDigits == DecDigits \o <<"A", "B", "C", "D", "E", "F">>

Letters == {Ascii[i] : i \in 34..59} \cup {Ascii[i] : i \in 66..91}

\* The characters encodeURIComponent leaves alone: A-Z a-z 0-9 - _ . ! ~ * ' ( )
Unreserved ==
  Letters \cup {DecDigits[i] : i \in 1..10}
          \cup {"-", "_", ".", "!", "~", "*", "'", "(", ")"}

\* %XX of one byte, upper-case hex as encodeURIComponent writes it.
HexByte(n) == <<"%", HexDigits[(n \div 16) + 1], HexDigits[(n % 16) + 1]>>

EncodeChar(c) == IF c \in Unreserved THEN <<c>> ELSE HexByte(CharCode(c))

RECURSIVE encodeURIComponent(_)
encodeURIComponent(s) ==
  IF s = <<>> THEN <<>>
  ELSE EncodeChar(Head(s)) \o encodeURIComponent(Tail(s))

\* String(n) of a non-negative integer, as `${Date.now()}` renders it.
RECURSIVE NumberToString(_)
NumberToString(n) ==
  IF n < 10 THEN <<DecDigits[n + 1]>>
  ELSE NumberToString(n \div 10) \o <<DecDigits[(n % 10) + 1]>>

\* ------------------------------------------------------------------- state
\* now:  the clock Date.now() reads, in epoch milliseconds
\* inv:  per request, the invocation that serves it (path is the path its
\*       write stream is opened on, file is req.file.filename, namedAt is the
\*       clock value the name was made from)
\* disk: the files under the upload root, a set of [path, bytes]; bytes is
\*       the set of requests whose streams made the present content, by
\*       emptying the file when they opened it or by writing into it
VARIABLES now, inv, disk

vars == <<now, inv, disk>>

\* path.join is path.posix.join or path.win32.join, by the operating system
\* the process runs on.
Platforms == {"posix", "win32"}

\* --------------------------------------------------------------- path.join
\* path.sep and the characters path.join cuts at: "/" everywhere, "\\" as
\* well on Windows.
Separators(pf) == IF pf = "win32" THEN {"/", "\\"} ELSE {"/"}

Dot == <<".">>

DotDot == <<".", ".">>

\* The segments of a path string, cut at every separator.
RECURSIVE SplitSegments(_, _, _)
SplitSegments(pf, s, cur) ==
  IF s = <<>> THEN <<cur>>
  ELSE IF Head(s) \in Separators(pf) THEN <<cur>> \o SplitSegments(pf, Tail(s), <<>>)
  ELSE SplitSegments(pf, Tail(s), Append(cur, Head(s)))

\* Normalisation: empty and "." segments vanish, ".." removes the last one.
RECURSIVE Resolve(_, _)
Resolve(base, segs) ==
  IF segs = <<>> THEN base
  ELSE LET g == Head(segs) IN
       Resolve(IF g = <<>> \/ g = Dot THEN base
               ELSE IF g = DotDot
                    THEN (IF base = <<>> THEN base ELSE SubSeq(base, 1, Len(base) - 1))
                    ELSE Append(base, g),
               Tail(segs))

\* path.join(dir, rel) on platform pf: dir is a sequence of segments, rel a
\* path string.
pathJoin(pf, dir, rel) == Resolve(dir, SplitSegments(pf, rel, <<>>))

\* __dirname of the controller: <app>/controllers/ImageUploadController
Dirname ==
  << <<"a", "p", "p">>,
     <<"c", "o", "n", "t", "r", "o", "l", "l", "e", "r", "s">>,
     <<"I", "m", "a", "g", "e", "U", "p", "l", "o", "a", "d",
       "C", "o", "n", "t", "r", "o", "l", "l", "e", "r">> >>

UploadsRel ==
  <<".", ".", "/", ".", ".", "/", "p", "u", "b", "l", "i", "c", "/",
    "u", "p", "l", "o", "a", "d", "s">>

\* storage.destination: the same directory for every request and file.
destination(pf, req, file) == pathJoin(pf, Dirname, UploadsRel)

\* Faulty variants of storage.filename: the original name used as it came; encodeURI
\* in place of encodeURIComponent.
filename_RawName(millis, originalname) ==
  NumberToString(millis) \o <<"-">> \o originalname

UriReserved == {";", ",", "/", "?", ":", "@", "&", "=", "+", "$", "#"}

RECURSIVE encodeURI(_)
encodeURI(s) ==
  IF s = <<>> THEN <<>>
  ELSE (IF Head(s) \in UriReserved THEN <<Head(s)>> ELSE EncodeChar(Head(s)))
         \o encodeURI(Tail(s))

filename_EncodeURI(millis, originalname) ==
  NumberToString(millis) \o <<"-">> \o encodeURI(originalname)

\* storage.filename: `${Date.now()}-${encodeURIComponent(originalname)}`
filename(millis, originalname) ==
  NumberToString(millis) \o <<"-">> \o encodeURIComponent(originalname)

\* Where diskStorage writes the file: path.join(destination, filename).
StoragePath(pf, req, file, name) == pathJoin(pf, destination(pf, req, file), name)

\* Faulty variant of the URL: the stored name appended without encoding it.
ImageUrl_RawName(protocol, host, name) ==
  protocol \o <<":", "/", "/">> \o host
           \o <<"/", "u", "p", "l", "o", "a", "d", "s", "/">> \o name

\* `${req.protocol}://${req.get('host')}/uploads/${encodeURIComponent(name)}`
ImageUrl(protocol, host, name) ==
  protocol \o <<":", "/", "/">> \o host
           \o <<"/", "u", "p", "l", "o", "a", "d", "s", "/">>
           \o encodeURIComponent(name)

\* ------------------------------------------------------------------ inputs
Http == <<"h", "t", "t", "p">>

Https == <<"h", "t", "t", "p", "s">>

HostA == <<"l", "o", "c", "a", "l", "h", "o", "s", "t", ":", "3", "0", "0", "0">>

HostB == <<"e", "x", "a", "m", "p", "l", "e", ".", "c", "o", "m">>

\* (req.protocol, req.get('host')) of the requests the model sends.
Origins == {<<Http, HostA>>, <<Https, HostB>>}

PlainName == <<"a", ".", "p", "n", "g">>

\* "../..\x %": both separators, ".." segments, a space and a percent sign
HostileName == <<".", ".", "/", ".", ".", "\\", "x", " ", "%">>

\* Client-supplied original file names.
OrigNames == {PlainName, HostileName}

FileBody(field, name) == [kind |-> "file", fieldname |-> field, originalname |-> name]

NoFileBody == [kind |-> "nofile", fieldname |-> "", originalname |-> <<>>]

TruncatedBody == [kind |-> "truncated", fieldname |-> "", originalname |-> <<>>]

\* Multipart bodies with one file part named image.
ImageBodies == {FileBody("image", n) : n \in OrigNames}

\* Multipart bodies without one: a file part under another field name; no
\* file part at all; a body that ends before its boundary.
OtherBodies == {FileBody("avatar", PlainName), NoFileBody, TruncatedBody}

\* The requests sent, (origin, body): the plain name from either origin, the
\* hostile name from one, and from the other the bodies that never reach the
\* success branch, the only one to read protocol and host.
Requests ==
  (Origins \X {FileBody("image", PlainName)})
    \cup ({<<Https, HostB>>} \X {FileBody("image", HostileName)})
    \cup ({<<Http, HostA>>} \X OtherBodies)

\* Error values. class is what instanceof sees; message is error.message as
\* the template literal renders it, given as the sequence of its parts: one
\* fixed text, or fixed texts around the path the system call was made on.
NoErr == [class |-> "undefined", message |-> <<"undefined">>]

NullErr == [class |-> "null", message |-> <<"undefined">>]

UnexpectedFieldErr == [class |-> "MulterError", message |-> <<"Unexpected field">>]

FileTooLargeErr == [class |-> "MulterError", message |-> <<"File too large">>]

TruncatedErr == [class |-> "Error", message |-> <<"Unexpected end of form">>]

\* A write of the stream fails: the disk is full.
DiskErr == [class |-> "Error", message |-> <<"ENOSPC: no space left on device, write">>]

\* The stream cannot open its file at path p: the upload directory is not
\* there.
OpenErr(p) ==
  [class |-> "Error", message |-> <<"ENOENT: no such file or directory, open '", p, "'">>]

ThrownStringErr == [class |-> "String", message |-> <<"undefined">>]

Truthy(err) == err.class \notin {"undefined", "null"}

IsMulterError(err) == err.class = "MulterError"

\* What upload.single('image') reports for a body it cannot accept.
DecodeError(body) ==
  IF body.kind = "truncated" THEN TruncatedErr ELSE UnexpectedFieldErr

\* The err arguments the error middleware is called with.
MiddlewareErrs == {NoErr, NullErr, FileTooLargeErr, DiskErr, ThrownStringErr}

Undefined == <<>>

Idle ==
  [pc |-> "idle", handler |-> "none", protocol |-> <<>>, host |-> <<>>,
   body |-> NoFileBody, dest |-> Undefined, filename |-> Undefined, namedAt |-> -1,
   path |-> Undefined,
   file |-> Undefined, err |-> NoErr, responses |-> <<>>, logs |-> <<>>, nextCalls |-> 0]

Init ==
  /\ now = FirstMillis
  /\ inv = [r \in Reqs |-> Idle]
  /\ disk = {}

\* ----------------------------------------------------------------- helpers
\* logData(fileName, text, level), recorded on the invocation that called it.
logData(v, fileName, text, level) ==
  [v EXCEPT !.logs = Append(@, [fileName |-> fileName, message |-> text, level |-> level])]

\* _logError: `[${functionOrigin}] ${message}: ${error.message}` at level error
LogError(v, message, error, functionOrigin) ==
  logData(v, "imageUploadController.js",
          <<"[", functionOrigin, "] ", message, ": ", error.message>>, "error")

\* _logInfo: `[${functionOrigin}] ${message}` at level info; the message is
\* given as its two parts, the fixed text and the URL.
LogInfo(v, text, url, functionOrigin) ==
  logData(v, "imageUploadController.js",
          <<"[", functionOrigin, "] ", text, url>>, "info")

\* res.status(code).json(body)
Respond(v, code, body) ==
  [v EXCEPT !.responses = Append(@, [status |-> code, body |-> body]), !.pc = "done"]

\* The JSON bodies: { message } and { imageUrl }
ErrorBody(text) == [message |-> text]

SuccessBody(url) == [imageUrl |-> url]

\* ---------------------------------------------------------------- handlers
\* Faulty variant of handleUploadError: the returns are missing, so next() is called
\* after the response as well.
handleUploadError_NoReturn(v, err) ==
  LET w == IF IsMulterError(err)
           THEN Respond(LogError(v, "Multer Error", err, "handleUploadError"),
                        400, ErrorBody("Image upload error"))
           ELSE IF Truthy(err)
           THEN Respond(LogError(v, "Error uploading image", err, "handleUploadError"),
                        500, ErrorBody("Error uploading image"))
           ELSE [v EXCEPT !.pc = "passed"]
  IN  [w EXCEPT !.nextCalls = @ + 1]

\* handleUploadError(err, req, res, next)
handleUploadError(v, err) ==
  IF IsMulterError(err)
  THEN Respond(LogError(v, "Multer Error", err, "handleUploadError"),
               400, ErrorBody("Image upload error"))
  ELSE IF Truthy(err)
  THEN Respond(LogError(v, "Error uploading image", err, "handleUploadError"),
               500, ErrorBody("Error uploading image"))
  ELSE [v EXCEPT !.nextCalls = @ + 1, !.pc = "passed"]

\* Faulty variant of the callback: every reported error answered as a client error.
UploadCallback_ClientError(v, err, file) ==
  IF Truthy(err)
  THEN Respond(LogError(v, "Error uploading image", err, "handleImageUpload"),
               400, ErrorBody("Image upload error"))
  ELSE IF file = Undefined
  THEN [v EXCEPT !.pc = "thrown"]
  ELSE LET imageUrl == ImageUrl(v.protocol, v.host, file)
       IN  Respond(LogInfo(v, "Image uploaded: ", imageUrl, "handleImageUpload"),
                   200, SuccessBody(imageUrl))

\* The callback handleImageUpload gives to upload.single('image'): err is the
\* error the middleware reports (falsy for none), file is req.file.  Reading
\* req.file.filename when req.file is undefined throws a TypeError: the
\* callback ends there, having logged nothing and sent nothing.  file is
\* req.file.filename, or Undefined when req.file is undefined.
UploadCallback(v, err, file) ==
  IF Truthy(err)
  THEN Respond(LogError(v, "Error uploading image", err, "handleImageUpload"),
               500, ErrorBody("Error uploading image"))
  ELSE IF file = Undefined
  THEN [v EXCEPT !.pc = "thrown"]
  ELSE LET imageUrl == ImageUrl(v.protocol, v.host, file)
       IN  Respond(LogInfo(v, "Image uploaded: ", imageUrl, "handleImageUpload"),
                   200, SuccessBody(imageUrl))

\* ----------------------------------------------------------------- actions
\* Requests are numbered in the order they arrive.
Arrives(r) == inv[r].pc = "idle" /\ \A q \in 1..(r - 1) : inv[q].pc # "idle"

\* handleImageUpload(req, res) is called: the multipart middleware starts
\* reading the body.
HandleImageUpload(r, o, b) ==
  /\ Arrives(r)
  /\ inv' = [inv EXCEPT ![r] = [@ EXCEPT !.pc = "decoding",
                                         !.handler = "handleImageUpload",
                                         !.protocol = o[1], !.host = o[2],
                                         !.body = b]]
  /\ UNCHANGED <<now, disk>>

\* The file at path p, if any, and what it holds.
Bytes(p) == UNION {e.bytes : e \in {f \in disk : f.path = p}}

\* The file at path p replaced by one holding b.
Put(p, b) == {e \in disk : e.path # p} \cup {[path |-> p, bytes |-> b]}

\* The file part named image is met: the storage engine asks for the
\* destination and the file name and creates its write stream on
\* path.join(destination, filename).  The file itself is not touched yet.
StorageFilename(r) ==
  /\ inv[r].pc = "decoding"
  /\ inv[r].body.kind = "file" /\ inv[r].body.fieldname = "image"
  /\ \E pf \in Platforms :
       LET name == filename(now, inv[r].body.originalname)
       IN  inv' = [inv EXCEPT ![r] =
                     [@ EXCEPT !.pc = "opening",
                               !.dest = destination(pf, r, inv[r].body),
                               !.filename = name,
                               !.namedAt = now,
                               !.path = StoragePath(pf, r, inv[r].body, name)]]
  /\ UNCHANGED <<now, disk>>

\* In a later turn of the event loop the write stream of request r opens: the
\* file is created, or emptied if it is there.
OpenStream(r) ==
  /\ inv[r].pc = "opening"
  /\ inv' = [inv EXCEPT ![r] = [@ EXCEPT !.pc = "writing"]]
  /\ disk' = Put(inv[r].path, {r})
  /\ UNCHANGED now

\* One write of the stream of request r lands in the file at its own
\* offset: the file then holds bytes of r, and of what other requests left
\* there any part may survive.
WriteChunk(r) ==
  /\ inv[r].pc = "writing"
  /\ LET p == inv[r].path
     IN  \E keep \in SUBSET Bytes(p) :
           /\ keep \cup {r} # Bytes(p)
           /\ disk' = Put(p, keep \cup {r})
  /\ UNCHANGED <<now, inv>>

\* The stream of request r finishes: req.file is set and the callback is
\* scheduled without error.
UploadStored(r) ==
  /\ inv[r].pc = "writing"
  /\ inv' = [inv EXCEPT ![r] = [@ EXCEPT !.pc = "callback", !.file = inv[r].filename]]
  /\ UNCHANGED <<now, disk>>

\* The stream of request r fails to open: no file is created or emptied, and
\* the callback is scheduled with the error of the open call, which names the
\* path.
UploadOpenError(r) ==
  /\ inv[r].pc = "opening"
  /\ inv' = [inv EXCEPT ![r] = [@ EXCEPT !.pc = "callback", !.err = OpenErr(inv[r].path)]]
  /\ UNCHANGED <<now, disk>>

\* A write of the open stream of request r fails (disk full): the callback is
\* scheduled with the error of the write call; what is in the file stays.
UploadWriteError(r) ==
  /\ inv[r].pc = "writing"
  /\ inv' = [inv EXCEPT ![r] = [@ EXCEPT !.pc = "callback", !.err = DiskErr]]
  /\ UNCHANGED <<now, disk>>

\* The body is refused before any file is named: the callback is scheduled
\* with the decoding error.
UploadRejected(r) ==
  /\ inv[r].pc = "decoding"
  /\ \/ inv[r].body.kind = "truncated"
     \/ inv[r].body.kind = "file" /\ inv[r].body.fieldname # "image"
  /\ inv' = [inv EXCEPT ![r] =
               [@ EXCEPT !.pc = "callback", !.err = DecodeError(inv[r].body)]]
  /\ UNCHANGED <<now, disk>>

\* The body holds no file part: decoding ends without error and req.file
\* stays undefined.
UploadNoFile(r) ==
  /\ inv[r].pc = "decoding"
  /\ inv[r].body.kind = "nofile"
  /\ inv' = [inv EXCEPT ![r] = [@ EXCEPT !.pc = "callback"]]
  /\ UNCHANGED <<now, disk>>

\* The callback given to upload.single('image') runs, in a later turn of the
\* event loop, with the error reported and req.file as they stand.
Callback(r) ==
  /\ inv[r].pc = "callback"
  /\ inv' = [inv EXCEPT ![r] = UploadCallback(@, inv[r].err, inv[r].file)]
  /\ UNCHANGED <<now, disk>>

\* The router calls the error middleware for request r with error e.
HandleUploadError(r, e) ==
  /\ Arrives(r)
  /\ inv' = [inv EXCEPT ![r] =
               handleUploadError([@ EXCEPT !.handler = "handleUploadError", !.err = e], e)]
  /\ UNCHANGED <<now, disk>>

\* A millisecond passes.
Tick ==
  /\ now < FirstMillis + MaxTicks
  /\ now' = now + 1
  /\ UNCHANGED <<inv, disk>>

Next ==
  \/ \E r \in Reqs, q \in Requests : HandleImageUpload(r, q[1], q[2])
  \/ \E r \in Reqs : StorageFilename(r)
  \/ \E r \in Reqs : OpenStream(r)
  \/ \E r \in Reqs : WriteChunk(r)
  \/ \E r \in Reqs : UploadStored(r)
  \/ \E r \in Reqs : UploadOpenError(r)
  \/ \E r \in Reqs : UploadWriteError(r)
  \/ \E r \in Reqs : UploadRejected(r)
  \/ \E r \in Reqs : UploadNoFile(r)
  \/ \E r \in Reqs : Callback(r)
  \/ \E r \in Reqs, e \in MiddlewareErrs : HandleUploadError(r, e)
  \/ Tick

Spec == Init /\ [][Next]_vars

\* ------------------------------------------------- vocabulary of the claims
Ended(v) == v.pc \in {"done", "thrown", "passed"}

Upload(r) == inv[r].handler = "handleImageUpload"

Named(r) == Upload(r) /\ inv[r].filename # Undefined

Succeeded(r) == Upload(r) /\ Ended(inv[r]) /\ inv[r].file # Undefined

Resp(code, body) == [status |-> code, body |-> body]

\* <app>/public/uploads
UploadRoot ==
  << <<"a", "p", "p">>,
     <<"p", "u", "b", "l", "i", "c">>,
     <<"u", "p", "l", "o", "a", "d", "s">> >>

UpperHex == {HexDigits[i] : i \in 1..16}

HexVal(c) == (CHOOSE i \in 1..16 : HexDigits[i] = c) - 1

\* From position i on, e is the percent-encoding of s from position j on:
\* an unreserved character stands for itself, any other is the escape %XX of
\* its code in upper-case hex.
RECURSIVE EncodesFrom(_, _, _, _)
EncodesFrom(e, i, s, j) ==
  IF j > Len(s) THEN i > Len(e)
  ELSE IF s[j] \in Unreserved
  THEN i <= Len(e) /\ e[i] = s[j] /\ EncodesFrom(e, i + 1, s, j + 1)
  ELSE /\ i + 2 <= Len(e)
       /\ e[i] = "%" /\ e[i + 1] \in UpperHex /\ e[i + 2] \in UpperHex
       /\ HexVal(e[i + 1]) * 16 + HexVal(e[i + 2]) \in 32..126
       /\ Ascii[HexVal(e[i + 1]) * 16 + HexVal(e[i + 2]) - 31] = s[j]
       /\ EncodesFrom(e, i + 3, s, j + 1)

DigitSet == {DecDigits[i] : i \in 1..10}

\* The number the first n characters of d, decimal digits, write.
RECURSIVE ParseDecimal(_, _)
ParseDecimal(d, n) ==
  IF n = 0 THEN 0
  ELSE 10 * ParseDecimal(d, n - 1) + (CHOOSE i \in 1..10 : DecDigits[i] = d[n]) - 1

\* name is <decimal of millis>-<percent-encoding of orig>
IsGeneratedName(name, millis, orig) ==
  \E i \in 2..Len(name) :
    /\ name[i] = "-"
    /\ \A j \in 1..(i - 1) : name[j] \in DigitSet
    /\ (i = 2 \/ name[1] # "0")
    /\ ParseDecimal(name, i - 1) = millis
    /\ EncodesFrom(name, i + 1, orig, 1)

HasPrefix(s, p) == Len(s) >= Len(p) /\ SubSeq(s, 1, Len(p)) = p

UrlPrefix(v) ==
  v.protocol \o <<":", "/", "/">> \o v.host
             \o <<"/", "u", "p", "l", "o", "a", "d", "s", "/">>

\* url is <protocol>://<host>/uploads/<percent-encoding of name>
IsImageUrl(url, v, name) ==
  /\ HasPrefix(url, UrlPrefix(v))
  /\ EncodesFrom(url, Len(UrlPrefix(v)) + 1, name, 1)

Paths == {e.path : e \in disk}

\* "/" and "\\", the separators of either platform
AnySeparator == {"/", "\\"}

\* ------------------------------------------------------------------ claims

\* C1: when the multipart middleware reports a MulterError, handleImageUpload
\* answers 400 {message: "Image upload error"}.
C1_MulterErrorAnswered400 ==
  \A r \in Reqs :
    (Upload(r) /\ Ended(inv[r]) /\ IsMulterError(inv[r].err))
      => inv[r].responses = <<Resp(400, ErrorBody("Image upload error"))>>

\* C2: when the request carries no file part (decoding ends without error and
\* req.file is absent), handleImageUpload answers 400 {message: "Image upload
\* error"}.
C2_NoFileAnswered400 ==
  \A r \in Reqs :
    (Upload(r) /\ Ended(inv[r]) /\ inv[r].body.kind = "nofile")
      => inv[r].responses = <<Resp(400, ErrorBody("Image upload error"))>>

\* C3: when decoding or storing fails with an error that is no MulterError
\* (the body ends early, the file cannot be opened, a write fails), the
\* response is 500 {message: "Error uploading image"} and carries no imageUrl.
C3_OtherErrorAnswered500 ==
  \A r \in Reqs :
    (Upload(r) /\ Ended(inv[r]) /\ Truthy(inv[r].err) /\ ~IsMulterError(inv[r].err))
      => /\ Len(inv[r].responses) = 1
         /\ inv[r].responses[1].status = 500
         /\ DOMAIN inv[r].responses[1].body = {"message"}
         /\ inv[r].responses[1].body.message = "Error uploading image"

\* One upload answered after a write of its stream failed, another after its
\* file could not be opened.
C3_Witness ==
  \E r, q \in Reqs :
    /\ Upload(r) /\ Ended(inv[r]) /\ inv[r].err = DiskErr
    /\ inv[r].filename # Undefined
    /\ Len(inv[r].responses) = 1
    /\ Upload(q) /\ Ended(inv[q]) /\ inv[q].filename # Undefined
    /\ inv[q].err = OpenErr(inv[q].path)
    /\ Len(inv[q].responses) = 1

\* C4: when the image file is decoded and stored, the response is 200
\* {imageUrl}, imageUrl being <protocol>://<host>/uploads/<percent-encoding of
\* the generated name>, and the generated name is the one the file of that
\* request was written under.
C4_SuccessUrl ==
  \A r \in Reqs :
    Succeeded(r)
      => /\ Len(inv[r].responses) = 1
         /\ inv[r].responses[1].status = 200
         /\ DOMAIN inv[r].responses[1].body = {"imageUrl"}
         /\ IsImageUrl(inv[r].responses[1].body.imageUrl, inv[r], inv[r].filename)
         /\ inv[r].file = inv[r].filename
         /\ Append(UploadRoot, inv[r].filename) \in Paths

\* An upload of the hostile name answered: its generated name holds escapes,
\* which the URL escapes again.
C4_Witness ==
  \E r \in Reqs :
    /\ Succeeded(r)
    /\ inv[r].body.originalname = HostileName
    /\ inv[r].host = HostB
    /\ Len(inv[r].responses) = 1

\* C5: every generated file name is the decimal clock value read at naming
\* time, then "-", then the percent-encoding of the original file name; the
\* destination is the one upload root, whatever the request and the file.
C5_GeneratedName ==
  \A r \in Reqs :
    Named(r)
      => /\ IsGeneratedName(inv[r].filename, inv[r].namedAt, inv[r].body.originalname)
         /\ inv[r].namedAt \in Millis
         /\ inv[r].dest = UploadRoot

\* Two requests of different origin and file, named at a two-digit clock value.
C5_Witness ==
  \E r, q \in Reqs :
    /\ Named(r) /\ Named(q)
    /\ inv[r].host # inv[q].host
    /\ inv[r].body.originalname # inv[q].body.originalname
    /\ inv[r].namedAt >= 10

\* C6: whatever the original file name, separators and ".." included, the
\* storage path is a direct child of the upload root: the generated name
\* holds no separator and is neither "." nor "..".
C6_DirectChild ==
  /\ \A r \in Reqs :
       Named(r)
         => /\ \A k \in 1..Len(inv[r].filename) : inv[r].filename[k] \notin AnySeparator
            /\ inv[r].filename \notin {Dot, DotDot}
            /\ inv[r].path = Append(UploadRoot, inv[r].filename)
  /\ \A p \in Paths : Len(p) = Len(UploadRoot) + 1 /\ HasPrefix(p, UploadRoot)

\* A file the client named "../..\x %" has been written.
C6_Witness ==
  \E r \in Reqs :
    /\ Succeeded(r)
    /\ inv[r].body.originalname = HostileName
    /\ \E e \in disk : e.bytes = {r}

\* C7: every invocation of handleImageUpload logs exactly once: at level
\* error, with the error message and the name handleImageUpload, on a failure
\* branch; at level info, with the imageUrl, on success.
C7_OneLogPerInvocation ==
  \A r \in Reqs :
    (Upload(r) /\ Ended(inv[r]))
      => /\ Len(inv[r].logs) = 1
         /\ IF inv[r].file # Undefined
            THEN /\ inv[r].logs[1].level = "info"
                 /\ Len(inv[r].responses) = 1
                 /\ inv[r].logs[1].message[5] = inv[r].responses[1].body.imageUrl
            ELSE /\ inv[r].logs[1].level = "error"
                 /\ inv[r].logs[1].message[2] = "handleImageUpload"
                 /\ inv[r].logs[1].message[6] = inv[r].err.message

\* ---- C8
SameUpload(r, q) ==
  /\ inv[r].body.originalname = inv[q].body.originalname
  /\ inv[r].namedAt = inv[q].namedAt

\* Both uploads were stored and answered under one generated name.
Collided(r, q) == Succeeded(r) /\ Succeeded(q) /\ SameUpload(r, q)

UrlOf(r) == inv[r].responses[1].body.imageUrl

PathOf(r) == inv[r].path

Answered200(r) == Len(inv[r].responses) = 1 /\ inv[r].responses[1].status = 200

\* Generated names agree exactly when original name and millisecond agree.
NamesCollideIff(r, q) ==
  (Named(r) /\ Named(q)) => ((inv[r].filename = inv[q].filename) <=> SameUpload(r, q))

\* The two uploads were given the same path.
CollisionSharesPath(r, q) == Collided(r, q) => PathOf(r) = PathOf(q)

\* The file two colliding uploads share is wholly one upload's: the write
\* that came later has replaced what was there.
CollisionOverwrites(r, q) ==
  Collided(r, q) => \E w \in Reqs : Bytes(PathOf(r)) = {w}

\* Both colliding uploads are answered 200, with one and the same imageUrl.
CollisionSameAnswer(r, q) ==
  Collided(r, q) => (Answered200(r) /\ Answered200(q) /\ UrlOf(r) = UrlOf(q))

\* In every other case two stored uploads leave two files and two URLs.
OtherwiseDistinct(r, q) ==
  (Succeeded(r) /\ Succeeded(q) /\ ~SameUpload(r, q))
    => /\ PathOf(r) # PathOf(q)
       /\ PathOf(r) \in Paths /\ PathOf(q) \in Paths
       /\ UrlOf(r) # UrlOf(q)

\* C8: names collide iff original name and millisecond agree; then both
\* writes go to one path, the later write replaces the earlier file, and both
\* requests get 200 with the same imageUrl; otherwise two files and two URLs.
C8_OverwriteAndSameUrl ==
  \A r, q \in Reqs :
    r # q =>
      /\ NamesCollideIff(r, q)
      /\ CollisionSharesPath(r, q)
      /\ CollisionOverwrites(r, q)
      /\ CollisionSameAnswer(r, q)
      /\ OtherwiseDistinct(r, q)

\* C9: every invocation of handleImageUpload ends with exactly one response:
\* 200 with an imageUrl naming the one file stored for the request, or 400 or
\* 500 with a message and no imageUrl.
C9_OneBinaryResponse ==
  \A r \in Reqs :
    (Upload(r) /\ Ended(inv[r]))
      => /\ Len(inv[r].responses) = 1
         /\ \/ /\ inv[r].responses[1].status = 200
               /\ DOMAIN inv[r].responses[1].body = {"imageUrl"}
               /\ inv[r].file # Undefined
               /\ IsImageUrl(inv[r].responses[1].body.imageUrl, inv[r], inv[r].file)
            \/ /\ inv[r].responses[1].status \in {400, 500}
               /\ DOMAIN inv[r].responses[1].body = {"message"}
               /\ inv[r].file = Undefined

\* C10: handleUploadError answers a MulterError with one error log and 400
\* {message: "Image upload error"}, any other truthy error with one error log
\* and 500 {message: "Error uploading image"}, neither time calling next();
\* with no error it calls next() once, answers nothing and logs nothing.
C10_ErrorMiddleware ==
  \A r \in Reqs :
    (inv[r].handler = "handleUploadError")
      => /\ Ended(inv[r])
         /\ IF IsMulterError(inv[r].err)
            THEN /\ inv[r].responses = <<Resp(400, ErrorBody("Image upload error"))>>
                 /\ Len(inv[r].logs) = 1 /\ inv[r].logs[1].level = "error"
                 /\ inv[r].nextCalls = 0
            ELSE IF inv[r].err.class \in {"Error", "String"}
            THEN /\ inv[r].responses = <<Resp(500, ErrorBody("Error uploading image"))>>
                 /\ Len(inv[r].logs) = 1 /\ inv[r].logs[1].level = "error"
                 /\ inv[r].nextCalls = 0
            ELSE /\ inv[r].responses = <<>>
                 /\ inv[r].logs = <<>>
                 /\ inv[r].nextCalls = 1

\* The middleware has served one MulterError and one call without error.
C10_Witness ==
  \E r, q \in Reqs :
    /\ inv[r].handler = "handleUploadError" /\ inv[r].err = FileTooLargeErr
    /\ inv[q].handler = "handleUploadError" /\ inv[q].err = NullErr
    /\ inv[q].pc = "passed"

====
